---- MODULE Spec2Model ----
(***************************************************************************)
(* Model of src/Streamapp.py: the text cleaning functions, load_data, the  *)
(* filters of main and the value_counts().head(10) charts.                 *)
(*                                                                         *)
(* A Python str is a sequence of one-character strings.  A cell of a       *)
(* pandas column is a record [k, v]: k = "str" with the text in v,         *)
(* k = "nan" for a blank spreadsheet cell (float NaN), k = "none" for      *)
(* Python None, and k = "raise" for a call that ended in an exception.     *)
(***************************************************************************)
EXTENDS Integers, Sequences, FiniteSets, TLC

VARIABLES pc, arg, norm, loc, skl, raw, cache, df, selection, filtered_df,
          counts

vars ==
  <<pc, arg, norm, loc, skl, raw, cache, df, selection, filtered_df, counts>>

\* ------------------------------------------------------------------ bounds
MaxLen == 4
MaxFrags == 4
MaxRows == 3
MaxJobs == 2
MaxTail == 2

\* ------------------------------------------------------------- characters
Alpha ==
  {"a","b","c","d","e","f","g","h","i","j","k","l","m","n","o","p","q","r",
   "s","t","u","v","w","x","y","z","A","B","C","D","E","F","G","H","I","J",
   "K","L","M","N","O","P","Q","R","S","T","U","V","W","X","Y","Z"}

Whitespace == {" ", "\t", "\n"}

isalpha(c) == c \in Alpha

Str(t) == [k |-> "str", v |-> t]
NaN == [k |-> "nan", v |-> <<>>]
None == [k |-> "none", v |-> <<>>]
Raise == [k |-> "raise", v |-> <<>>]

\* pd.isna(x)
isna(cell) == cell.k \in {"nan", "none"}

NA == <<"N", "/", "A">>

\* ---------------------------------------------------------- str methods
RECURSIVE lstrip(_)
lstrip(t) ==
  IF t # <<>> /\ Head(t) \in Whitespace THEN lstrip(Tail(t)) ELSE t

RECURSIVE rstrip(_)
rstrip(t) ==
  IF t # <<>> /\ t[Len(t)] \in Whitespace
  THEN rstrip(SubSeq(t, 1, Len(t) - 1))
  ELSE t

\* str.strip()
strip(t) == rstrip(lstrip(t))

\* str.split(sep) for a one-character sep
RECURSIVE split(_, _)
split(t, sep) ==
  IF \A i \in 1..Len(t) : t[i] # sep
  THEN <<t>>
  ELSE LET i == CHOOSE i \in 1..Len(t) :
                  t[i] = sep /\ \A j \in 1..(i - 1) : t[j] # sep
       IN <<SubSeq(t, 1, i - 1)>> \o split(SubSeq(t, i + 1, Len(t)), sep)

\* sep.join(parts)
RECURSIVE join(_, _)
join(parts, sep) ==
  IF parts = <<>> THEN <<>>
  ELSE IF Len(parts) = 1 THEN parts[1]
  ELSE parts[1] \o sep \o join(Tail(parts), sep)

\* the concatenation of a sequence of sequences
RECURSIVE Concat(_)
Concat(fs) == IF fs = <<>> THEN <<>> ELSE Head(fs) \o Concat(Tail(fs))

\* [part.strip() for part in parts]
StripAll(parts) == [i \in DOMAIN parts |-> strip(parts[i])]

CommaSpace == <<",", " ">>

\* --------------------------------------------------------- clean_data
\* the two while loops, with Python's 0-based indices
RECURSIVE ScanStart(_, _)
ScanStart(text, start) ==
  IF start < Len(text) /\ ~isalpha(text[start + 1])
  THEN ScanStart(text, start + 1)
  ELSE start

RECURSIVE ScanEnd(_, _)
ScanEnd(text, end) ==
  IF end >= 0 /\ ~isalpha(text[end + 1])
  THEN ScanEnd(text, end - 1)
  ELSE end

\* `not text` is true of None and of "", false of NaN (a float, which is
\* truthy); NaN then reaches text.strip() and raises AttributeError.
clean_data(cell) ==
  IF cell.k = "none" \/ (cell.k = "str" /\ cell.v = <<>>) THEN Str(NA)
  ELSE IF cell.k # "str" THEN Raise
  ELSE LET text == strip(cell.v)
           start == ScanStart(text, 0)
           end == ScanEnd(text, Len(text) - 1)
       IN IF start <= end THEN Str(SubSeq(text, start + 1, end + 1))
          ELSE Str(NA)

\* df['location'].apply(clean_data), cell by cell
ApplyCleanData(column) == [i \in DOMAIN column |-> clean_data(column[i])]

\* an exception in one cell ends the apply, and load_data with it
Raised(column) == \E i \in DOMAIN column : column[i].k = "raise"

\* ------------------------------------------- extract_city / extract_country
CityOf(l) ==
  IF isna(l) THEN NA
  ELSE IF \E i \in 1..Len(l.v) : l.v[i] = ","
  THEN LET parts == split(l.v, ",")
       IN IF Len(parts) > 1 THEN strip(parts[Len(parts) - 1]) ELSE NA
  ELSE NA

extract_city(location_series) ==
  [i \in DOMAIN location_series |-> CityOf(location_series[i])]

CountryOf(l) ==
  IF isna(l) THEN NA
  ELSE IF \E i \in 1..Len(l.v) : l.v[i] = ","
  THEN LET parts == split(l.v, ",") IN strip(parts[Len(parts)])
  ELSE NA

UpdatedLocationOf(l) ==
  IF isna(l) THEN NA
  ELSE IF \E i \in 1..Len(l.v) : l.v[i] = ","
  THEN LET parts == split(l.v, ",")
       IN strip(join(SubSeq(parts, 1, Len(parts) - 1), CommaSpace))
  ELSE l.v

\* returns (updated_locations, countries)
extract_country(location_series) ==
  <<[i \in DOMAIN location_series |-> UpdatedLocationOf(location_series[i])],
    [i \in DOMAIN location_series |-> CountryOf(location_series[i])]>>

\* load_data, the `if 'location' in df.columns` branch, on one column
LocationColumns(column) ==
  LET cleaned == ApplyCleanData(column)
  IN IF Raised(cleaned) THEN [status |-> "raise", city |-> <<>>,
                               location |-> <<>>, country |-> <<>>]
     ELSE [status |-> "ok",
           city |-> extract_city(cleaned),
           location |-> extract_country(cleaned)[1],
           country |-> extract_country(cleaned)[2]]

\* ------------------------------------------------------------ skills
job_type_keywords ==
  {<<"F","u","l","l"," ","T","i","m","e">>,
   <<"P","a","r","t"," ","T","i","m","e">>,
   <<"F","r","e","e","l","a","n","c","e">>,
   <<"R","e","m","o","t","e">>,
   <<"O","n","-","s","i","t","e">>,
   <<"H","y","b","r","i","d">>,
   <<"I","n","t","e","r","n","s","h","i","p">>,
   <<"S","h","i","f","t"," ","B","a","s","e","d">>}

\* list(dict.fromkeys(xs)): first occurrences, in order
RECURSIVE fromkeys(_)
fromkeys(xs) ==
  IF xs = <<>> THEN <<>>
  ELSE LET init == fromkeys(SubSeq(xs, 1, Len(xs) - 1))
           last == xs[Len(xs)]
       IN IF \E i \in DOMAIN init : init[i] = last THEN init
          ELSE Append(init, last)

NotKeyword(part) == part \notin job_type_keywords

\* faulty variant: the parts are compared with the keywords before being trimmed
clean_skills_untrimmed(text) ==
  IF isna(text) THEN Str(NA)
  ELSE LET parts == split(text.v, ",")
           filtered_parts == SelectSeq(parts, NotKeyword)
       IN IF filtered_parts # <<>> THEN Str(join(filtered_parts, CommaSpace))
          ELSE Str(NA)

clean_skills(text) ==
  IF isna(text) THEN Str(NA)
  ELSE LET parts == StripAll(split(text.v, ","))
           filtered_parts == SelectSeq(parts, NotKeyword)
       IN IF filtered_parts # <<>> THEN Str(join(filtered_parts, CommaSpace))
          ELSE Str(NA)

\* faulty variant: the duplicates are kept
clean_and_keep_duplicate_skills(text) ==
  IF isna(text) THEN Str(NA)
  ELSE LET skills == StripAll(split(text.v, ","))
       IN IF skills # <<>> THEN Str(join(skills, CommaSpace)) ELSE Str(NA)

clean_and_deduplicate_skills(text) ==
  IF isna(text) THEN Str(NA)
  ELSE LET skills == StripAll(split(text.v, ","))
           unique_skills == fromkeys(skills)
       IN IF unique_skills # <<>> THEN Str(join(unique_skills, CommaSpace))
          ELSE Str(NA)

\* re.split(r',\s*', t): a comma and all the whitespace after it
RECURSIVE regex_split(_)
regex_split(t) ==
  IF \A i \in 1..Len(t) : t[i] # ","
  THEN <<t>>
  ELSE LET i == CHOOSE i \in 1..Len(t) :
                  t[i] = "," /\ \A j \in 1..(i - 1) : t[j] # ","
       IN <<SubSeq(t, 1, i - 1)>>
            \o regex_split(lstrip(SubSeq(t, i + 1, Len(t))))

\* .fillna('').astype(str).str.split(r',\s*') on one cell
SkillsListOf(cell) == regex_split(IF isna(cell) THEN <<>> ELSE cell.v)

\* load_data, the `if 'skills' in df.columns` branch, on one column
SkillsColumns(column) ==
  LET cleaned == [i \in DOMAIN column |->
                    clean_and_deduplicate_skills(clean_skills(column[i]))]
  IN [skills |-> cleaned,
      skills_list |-> [i \in DOMAIN column |-> SkillsListOf(cleaned[i])]]

\* ---------------------------------------------------------------- load_data
\* A table is [status, cols, rows]; the column names are the normalised
\* ones (lower case, underscores).  A row carries a value for every column
\* the model knows and Missing for a column the table has not; `index` is
\* the row's label in the DataFrame's index, its 0-based input position.
Missing == [k |-> "missing", v |-> <<>>]

Column(t, name) == [i \in DOMAIN t.rows |-> t.rows[i][name]]

SameJob(r1, r2) == r1.job_title = r2.job_title /\ r1.company = r2.company

\* faulty variant: drop_duplicates(..., keep='last')
RECURSIVE drop_duplicates_keep_last(_)
drop_duplicates_keep_last(rows) ==
  IF rows = <<>> THEN <<>>
  ELSE IF \E i \in 2..Len(rows) : SameJob(rows[i], rows[1])
  THEN drop_duplicates_keep_last(Tail(rows))
  ELSE <<rows[1]>> \o drop_duplicates_keep_last(Tail(rows))

\* df.drop_duplicates(subset=['job_title', 'company']): keep='first'
RECURSIVE drop_duplicates(_)
drop_duplicates(rows) ==
  IF rows = <<>> THEN <<>>
  ELSE LET front == SubSeq(rows, 1, Len(rows) - 1)
           last == rows[Len(rows)]
       IN IF \E i \in DOMAIN front : SameJob(front[i], last)
          THEN drop_duplicates(front)
          ELSE Append(drop_duplicates(front), last)

Failed(error) == [status |-> error, cols |-> {}, rows |-> <<>>]

load_data(t) ==
  LET n == Len(t.rows)
      lc == IF "location" \in t.cols
            THEN LocationColumns(Column(t, "location"))
            ELSE [status |-> "ok",
                  city |-> [i \in 1..n |-> NA],
                  location |-> [i \in 1..n |-> NA],
                  country |-> [i \in 1..n |-> NA]]
      sk == IF "skills" \in t.cols
            THEN SkillsColumns(Column(t, "skills"))
            ELSE [skills |-> [i \in 1..n |-> Missing],
                  skills_list |-> [i \in 1..n |-> <<>>]]
      cols == (t.cols \cup {"city", "country", "skills_list"})
                \ {"salary", "location"}
      rows == [i \in 1..n |->
                 [index |-> t.rows[i].index,
                  job_title |-> t.rows[i].job_title,
                  company |-> t.rows[i].company,
                  job_type |-> t.rows[i].job_type,
                  city |-> lc.city[i],
                  country |-> lc.country[i],
                  skills |-> sk.skills[i],
                  skills_list |-> sk.skills_list[i]]]
  IN IF lc.status = "raise" THEN Failed("AttributeError")
     ELSE IF ~({"job_title", "company"} \subseteq cols) THEN Failed("KeyError")
     ELSE [status |-> "ok", cols |-> cols, rows |-> drop_duplicates(rows)]

\* ----------------------------------------------------------------- charts
TopN == 10

Count(s, v) == Cardinality({i \in DOMAIN s : s[i] = v})

Values(s) == {s[i] : i \in DOMAIN s}

MaxCount(s, vals) ==
  CHOOSE m \in {Count(s, v) : v \in vals} : \A v \in vals : Count(s, v) <= m

MinCount(s, vals) ==
  CHOOSE m \in {Count(s, v) : v \in vals} : \A v \in vals : Count(s, v) >= m

\* faulty variant: sort_values(ascending=True)
RECURSIVE value_counts_ascending(_, _)
value_counts_ascending(s, vals) ==
  IF vals = {} THEN {<<>>}
  ELSE UNION {
         {<<[value |-> v, count |-> Count(s, v)]>> \o rest :
            rest \in value_counts_ascending(s, vals \ {v})}
         : v \in {w \in vals : Count(s, w) = MinCount(s, vals)}}

\* Series.value_counts() over the values vals of s: the distinct values with
\* their counts, sorted by count, descending.  The sort is
\* sort_values(ascending=False) with the default kind, quicksort, which is
\* not a stable sort: values with equal counts come in any order.
RECURSIVE value_counts(_, _)
value_counts(s, vals) ==
  IF vals = {} THEN {<<>>}
  ELSE UNION {
         {<<[value |-> v, count |-> Count(s, v)]>> \o rest :
            rest \in value_counts(s, vals \ {v})}
         : v \in {w \in vals : Count(s, w) = MaxCount(s, vals)}}

\* .head(n)
head(rows, n) == SubSeq(rows, 1, IF Len(rows) < n THEN Len(rows) ELSE n)

\* the results value_counts().head(10) can give for a series
TopCounts(s) == {head(r, TopN) : r \in value_counts(s, Values(s))}

\* [skill for sub in filtered_df['skills_list'] for skill in sub]
all_skills(table) == Concat(Column(table, "skills_list"))

\* ------------------------------------------------------------------ inputs
TextAlphabet == {"a", "B", "1", " ", ","}

Texts(alphabet, n) == UNION {[1..k -> alphabet] : k \in 0..n}

MaadiCairoEgypt ==
  <<"M","a","a","d","i",","," ","C","a","i","r","o",","," ","E","g","y","p","t">>
CairoEgypt == <<"C","a","i","r","o",","," ","E","g","y","p","t">>
Remote == <<"R","e","m","o","t","e">>
Digits123 == <<"1","2","3","!","!","!">>

MaadiCairo == <<"M","a","a","d","i",","," ","C","a","i","r","o">>
Cairo == <<"C","a","i","r","o">>
Egypt == <<"E","g","y","p","t">>

TextExamples == {MaadiCairoEgypt, CairoEgypt, Remote, Digits123}

TextInputs ==
  {Str(t) : t \in Texts(TextAlphabet, MaxLen) \cup TextExamples} \cup {NaN, None}

FullTime == <<"F","u","l","l"," ","T","i","m","e">>
PythonFullTimePythonSQL ==
  <<"P","y","t","h","o","n",","," ","F","u","l","l"," ","T","i","m","e",","," ","P","y","t","h","o","n",","," ","S","Q","L">>
CppRemoteCpp == <<"C","+","+",","," ","R","e","m","o","t","e",","," ","C","+","+">>
Python == <<"P","y","t","h","o","n">>
SQL == <<"S","Q","L">>

SkillFragments ==
  {<<"P">>, <<"S">>, Remote, FullTime, <<"F","u","l","l">>, <<" ">>, <<",">>}

SkillExamples == {PythonFullTimePythonSQL, CppRemoteCpp}

SkillInputs ==
  {Str(Concat(fs)) : fs \in Texts(SkillFragments, MaxFrags)}
    \cup {Str(t) : t \in SkillExamples} \cup {NaN}

GizaCairoEgypt == <<"G","i","z","a",","," ","C","a","i","r","o",","," ","E","g","y","p","t">>
CairoCommaCommaEgypt == <<"C","a","i","r","o",",",",","E","g","y","p","t">>
X == <<"X">>

Columns == {"job_title", "company", "job_type", "location", "skills", "salary"}

\* the rows of a raw table with the columns cols
RawRows(cols, titles, companies, types, locations, skills) ==
  [job_title : IF "job_title" \in cols THEN titles ELSE {""},
   company : IF "company" \in cols THEN companies ELSE {""},
   job_type : IF "job_type" \in cols THEN types ELSE {""},
   location : IF "location" \in cols THEN locations ELSE {Missing},
   skills : IF "skills" \in cols THEN skills ELSE {Missing},
   salary : IF "salary" \in cols THEN {"5000"} ELSE {""}]

Indexed(rows) ==
  [i \in DOMAIN rows |->
     [index |-> i - 1,
      job_title |-> rows[i].job_title,
      company |-> rows[i].company,
      job_type |-> rows[i].job_type,
      location |-> rows[i].location,
      skills |-> rows[i].skills,
      salary |-> rows[i].salary]]

RawTable(cols, rows) == [status |-> "raw", cols |-> cols, rows |-> Indexed(rows)]

LoadTitles == {"Dev", "QA"}
LoadCompanies == {"Acme", "Beta"}
LoadTypes == {"Full Time"}
LoadLocations == {NaN, Str(GizaCairoEgypt), Str(CairoCommaCommaEgypt)}
LoadSkills == {NaN, Str(CppRemoteCpp)}

\* the tables the charts are drawn from: NumValues jobs, job v with its own
\* company and city and one or two skills
NumValues == 12
PrefixValues == 9

CompanyNames ==
  <<"CoA", "CoB", "CoC", "CoD", "CoE", "CoF", "CoG", "CoH", "CoI", "CoJ", "CoK", "CoL", "CoM", "CoN">>
CityNames ==
  <<<<"A">>, <<"B">>, <<"C">>, <<"D">>, <<"E">>, <<"F">>, <<"G">>, <<"H">>, <<"I">>, <<"J">>, <<"K">>, <<"L">>, <<"M">>, <<"N">>>>
SkillNames ==
  <<<<"s","a">>, <<"s","b">>, <<"s","c">>, <<"s","d">>, <<"s","e">>, <<"s","f">>, <<"s","g">>, <<"s","h">>, <<"s","i">>, <<"s","j">>, <<"s","k">>, <<"s","l">>, <<"s","m">>, <<"s","n">>>>

ChartRow(v) ==
  [index |-> 0, job_title |-> "Dev", company |-> CompanyNames[v],
   job_type |-> "Full Time", city |-> CityNames[v], country |-> Egypt,
   skills |-> Missing,
   skills_list |-> IF v % 2 = 1 THEN <<SkillNames[v]>>
                   ELSE <<SkillNames[v], SkillNames[1]>>]

RECURSIVE Repeat(_, _)
Repeat(x, n) == IF n = 0 THEN <<>> ELSE <<x>> \o Repeat(x, n - 1)

\* values 1..PrefixValues, value v PrefixValues + 2 - v times: all counts
\* differ and the rarest value comes twice
RECURSIVE Prefix(_)
Prefix(v) ==
  IF v > PrefixValues THEN <<>>
  ELSE Repeat(v, PrefixValues + 2 - v) \o Prefix(v + 1)

ChartTable(vs) ==
  [status |-> "ok",
   cols |-> {"job_title", "company", "job_type", "city", "country", "skills",
             "skills_list"},
   rows |-> [i \in DOMAIN vs |-> ChartRow(vs[i])]]

NoTable == [status |-> "none", cols |-> {}, rows |-> <<>>]
NoSelection == [cities |-> {}, companies |-> {}, job_types |-> {}]
NoCounts == [chart |-> "none", top |-> <<>>]
NoLoc == [status |-> "none", city |-> <<>>, location |-> <<>>, country |-> <<>>]
NoSkills == [skills |-> <<>>, skills_list |-> <<>>]

\* ------------------------------------------------- the text functions alone
InitText ==
  /\ pc = "start"
  /\ arg \in TextInputs
  /\ norm = None
  /\ loc = NoLoc
  /\ skl = NoSkills
  /\ raw = NoTable
  /\ cache = NoTable
  /\ df = NoTable
  /\ selection = NoSelection
  /\ filtered_df = NoTable
  /\ counts = NoCounts

CallCleanData ==
  /\ pc = "start"
  /\ norm' = clean_data(arg)
  /\ pc' = "clean_data"
  /\ UNCHANGED <<arg, loc, skl, raw, cache, df, selection, filtered_df, counts>>

CallSplitLocation ==
  /\ pc = "start"
  /\ loc' = LocationColumns(<<arg>>)
  /\ pc' = "split_location"
  /\ UNCHANGED <<arg, norm, skl, raw, cache, df, selection, filtered_df, counts>>

NextText == CallCleanData \/ CallSplitLocation

SpecText == InitText /\ [][NextText]_vars

\* ----------------------------------------------- the skills functions alone
InitSkills ==
  /\ pc = "start"
  /\ arg \in SkillInputs
  /\ norm = None
  /\ loc = NoLoc
  /\ skl = NoSkills
  /\ raw = NoTable
  /\ cache = NoTable
  /\ df = NoTable
  /\ selection = NoSelection
  /\ filtered_df = NoTable
  /\ counts = NoCounts

CallNormalizeSkills ==
  /\ pc = "start"
  /\ skl' = SkillsColumns(<<arg>>)
  /\ pc' = "skills"
  /\ UNCHANGED <<arg, norm, loc, raw, cache, df, selection, filtered_df, counts>>

NextSkills == CallNormalizeSkills

SpecSkills == InitSkills /\ [][NextSkills]_vars

\* -------------------------------------------------------- load_data alone
InitLoad ==
  /\ pc = "start"
  /\ arg = None
  /\ norm = None
  /\ loc = NoLoc
  /\ skl = NoSkills
  /\ \E cols \in SUBSET Columns, k \in 0..MaxRows :
       \E rows \in [1..k -> RawRows(cols, LoadTitles, LoadCompanies, LoadTypes,
                                    LoadLocations, LoadSkills)] :
         raw = RawTable(cols, rows)
  /\ cache = NoTable
  /\ df = NoTable
  /\ selection = NoSelection
  /\ filtered_df = NoTable
  /\ counts = NoCounts

CallLoadData ==
  /\ pc = "start"
  /\ df' = load_data(raw)
  /\ pc' = "loaded"
  /\ UNCHANGED <<arg, norm, loc, skl, raw, cache, selection, filtered_df, counts>>

NextLoad == CallLoadData

SpecLoad == InitLoad /\ [][NextLoad]_vars

\* ------------------------------------------------------------------- main
\* filtered_df[filtered_df[name].isin(chosen)]
RowsIn(rows, name, chosen) ==
  LET Chosen(r) == r[name] \in chosen IN SelectSeq(rows, Chosen)

\* the options a multiselect offers: sorted(df[name].dropna().unique())
Options(table, name) == {table.rows[i][name] : i \in DOMAIN table.rows}

\* faulty variant: the filter is applied to df itself, without df.copy()
ApplyFiltersInPlace(table, sel) ==
  LET byCity == IF sel.cities # {}
                THEN RowsIn(table.rows, "city", sel.cities)
                ELSE table.rows
      byCompany == IF sel.companies # {}
                   THEN RowsIn(byCity, "company", sel.companies)
                   ELSE byCity
      byType == IF sel.job_types # {} /\ "job_type" \in table.cols
                THEN RowsIn(byCompany, "job_type", sel.job_types)
                ELSE byCompany
      filtered == [status |-> table.status, cols |-> table.cols, rows |-> byType]
  IN [df |-> filtered, filtered_df |-> filtered]

\* faulty variant: the company filter is applied to df instead of to the rows the
\* city filter kept
ApplyFiltersCompanyOnDf(table, sel) ==
  LET byCity == IF sel.cities # {}
                THEN RowsIn(table.rows, "city", sel.cities)
                ELSE table.rows
      byCompany == IF sel.companies # {}
                   THEN RowsIn(table.rows, "company", sel.companies)
                   ELSE byCity
      byType == IF sel.job_types # {} /\ "job_type" \in table.cols
                THEN RowsIn(byCompany, "job_type", sel.job_types)
                ELSE byCompany
  IN [df |-> table,
      filtered_df |-> [status |-> table.status, cols |-> table.cols,
                       rows |-> byType]]

\* "Apply filters": df and filtered_df after the three conditional filters
ApplyFilters(table, sel) ==
  LET byCity == IF sel.cities # {}
                THEN RowsIn(table.rows, "city", sel.cities)
                ELSE table.rows
      byCompany == IF sel.companies # {}
                   THEN RowsIn(byCity, "company", sel.companies)
                   ELSE byCity
      byType == IF sel.job_types # {} /\ "job_type" \in table.cols
                THEN RowsIn(byCompany, "job_type", sel.job_types)
                ELSE byCompany
  IN [df |-> table,
      filtered_df |-> [status |-> table.status, cols |-> table.cols,
                       rows |-> byType]]

\* @st.cache_data: load_data runs on the first call for a file and the
\* stored table is handed out, as a copy, afterwards; an exception is not
\* stored.
CachedLoad == IF cache.status = "ok" THEN cache ELSE load_data(raw)

MainTitles == {"Dev", "QA"}
MainCompanies == {"Acme", "Beta"}
MainTypes == {"Full Time", "Remote"}
MainLocations == {NaN, Str(GizaCairoEgypt), Str(X)}
MainSkills == {Str(CppRemoteCpp)}
MainShapes == {Columns, Columns \ {"job_type"}}

Init ==
  /\ pc = "start"
  /\ arg = None
  /\ norm = None
  /\ loc = NoLoc
  /\ skl = NoSkills
  /\ \E cols \in MainShapes, k \in 0..MaxJobs :
       \E rows \in [1..k -> RawRows(cols, MainTitles, MainCompanies, MainTypes,
                                    MainLocations, MainSkills)] :
         raw = RawTable(cols, rows)
  /\ cache = NoTable
  /\ df = NoTable
  /\ selection = NoSelection
  /\ filtered_df = NoTable
  /\ counts = NoCounts

\* one run of main(), started by a user interaction, up to the filters
MainShows ==
  /\ pc \in {"start", "shown"}
  /\ CachedLoad.status = "ok"
  /\ \E cities \in SUBSET Options(CachedLoad, "city"),
        companies \in SUBSET Options(CachedLoad, "company"),
        job_types \in IF "job_type" \in CachedLoad.cols
                      THEN SUBSET Options(CachedLoad, "job_type")
                      ELSE {{}} :
       LET sel == [cities |-> cities, companies |-> companies,
                   job_types |-> job_types]
           after == ApplyFilters(CachedLoad, sel)
       IN /\ selection' = sel
          /\ df' = after.df
          /\ filtered_df' = after.filtered_df
  /\ cache' = CachedLoad
  /\ pc' = "shown"
  /\ UNCHANGED <<arg, norm, loc, skl, raw, counts>>

\* load_data raises: the run ends with the exception
MainFails ==
  /\ pc \in {"start", "shown"}
  /\ CachedLoad.status # "ok"
  /\ pc' = "error"
  /\ UNCHANGED <<arg, norm, loc, skl, raw, cache, df, selection, filtered_df,
                 counts>>

Next == MainShows \/ MainFails

Spec == Init /\ [][Next]_vars

\* -------------------------------------------------------- the charts alone
InitTop ==
  /\ pc = "start"
  /\ arg = None
  /\ norm = None
  /\ loc = NoLoc
  /\ skl = NoSkills
  /\ raw = NoTable
  /\ cache = NoTable
  /\ df = NoTable
  /\ selection = NoSelection
  /\ \E prefix \in {<<>>, Prefix(1)}, k \in 0..MaxTail :
       \E tail \in [1..k -> 1..NumValues] :
         filtered_df = ChartTable(prefix \o tail)
  /\ counts = NoCounts

\* "Top Skills Bar Chart"
SkillsChart ==
  /\ pc = "start"
  /\ IF all_skills(filtered_df) # <<>>
     THEN \E top \in TopCounts(all_skills(filtered_df)) :
            counts' = [chart |-> "skills", top |-> top]
     ELSE counts' = [chart |-> "skills", top |-> <<>>]
  /\ pc' = "charted"
  /\ UNCHANGED <<arg, norm, loc, skl, raw, cache, df, selection, filtered_df>>

\* "Top Cities Bar Chart"
CityChart ==
  /\ pc = "start"
  /\ "city" \in filtered_df.cols
  /\ \E top \in TopCounts(Column(filtered_df, "city")) :
       counts' = [chart |-> "city", top |-> top]
  /\ pc' = "charted"
  /\ UNCHANGED <<arg, norm, loc, skl, raw, cache, df, selection, filtered_df>>

\* "Top Companies Bar Chart"
CompanyChart ==
  /\ pc = "start"
  /\ "company" \in filtered_df.cols
  /\ \E top \in TopCounts(Column(filtered_df, "company")) :
       counts' = [chart |-> "company", top |-> top]
  /\ pc' = "charted"
  /\ UNCHANGED <<arg, norm, loc, skl, raw, cache, df, selection, filtered_df>>

NextTop == SkillsChart \/ CityChart \/ CompanyChart

SpecTop == InitTop /\ [][NextTop]_vars

\* ============================================ load_data (C1, C3, C4)
\* the input positions whose (job_title, company) no earlier row carries
FirstOccurrences(rows) ==
  {i \in DOMAIN rows : \A j \in 1..(i - 1) : ~SameJob(rows[j], rows[i])}

\* C1: the table load_data returns has no two rows with the same
\* (job_title, company); its rows are exactly the first input rows carrying
\* each pair, in input order.
C1_Deduplicated ==
  pc = "loaded" /\ df.status = "ok" =>
    /\ \A i, j \in DOMAIN df.rows : i # j => ~SameJob(df.rows[i], df.rows[j])
    /\ \A i, j \in DOMAIN df.rows : i < j => df.rows[i].index < df.rows[j].index
    /\ {df.rows[i].index + 1 : i \in DOMAIN df.rows} = FirstOccurrences(raw.rows)
    /\ \A i \in DOMAIN df.rows : SameJob(df.rows[i], raw.rows[df.rows[i].index + 1])

\* three input rows, the third repeating the first: two rows survive
C1_Witness ==
  /\ pc = "loaded"
  /\ df.status = "ok"
  /\ Len(raw.rows) = 3
  /\ SameJob(raw.rows[1], raw.rows[3])
  /\ ~SameJob(raw.rows[1], raw.rows[2])
  /\ Len(df.rows) = 2
  /\ df.rows[1].index = 0
  /\ df.rows[2].index = 1

\* C3: in every row of a returned table city and country are populated,
\* never the empty string, and are "N/A" when the table has no location
\* column.
C3_CityCountryPopulated ==
  pc = "loaded" /\ df.status = "ok" =>
    \A i \in DOMAIN df.rows :
      /\ df.rows[i].city # <<>>
      /\ df.rows[i].country # <<>>
      /\ "location" \notin raw.cols =>
           df.rows[i].city = NA /\ df.rows[i].country = NA

\* What the code does guarantee: the country is never empty, and without a
\* location column both fields are "N/A".
C3_CountryPopulated ==
  pc = "loaded" /\ df.status = "ok" =>
    \A i \in DOMAIN df.rows :
      /\ df.rows[i].country # <<>>
      /\ "location" \notin raw.cols =>
           df.rows[i].city = NA /\ df.rows[i].country = NA

\* C4: load_data never raises on a table with missing columns or blank
\* location or skills cells: it returns a table with city, country and
\* skills_list columns and one row per distinct (job_title, company).
C4_NeverRaises ==
  pc = "loaded" =>
    /\ df.status = "ok"
    /\ {"city", "country", "skills_list"} \subseteq df.cols
    /\ Len(df.rows) = Cardinality(FirstOccurrences(raw.rows))

\* The part of C4 the code keeps: a missing location, skills, salary or
\* job_type column and a blank skills cell are absorbed.
C4_AbsorbedCases ==
  /\ pc = "loaded"
  /\ {"job_title", "company"} \subseteq raw.cols
  /\ \A i \in DOMAIN raw.rows : raw.rows[i].location # NaN
  => /\ df.status = "ok"
     /\ {"city", "country", "skills_list"} \subseteq df.cols
     /\ Len(df.rows) = Cardinality(FirstOccurrences(raw.rows))

\* ===================================================== main (C8, C9)
\* C8: the filtered view is exactly the rows of the table, in table order,
\* whose city is among the chosen cities if any is chosen, and whose
\* company is among the chosen companies if any is chosen, and whose
\* job_type is among the chosen job types if any is chosen and the column
\* exists; the empty selection keeps every row.
C8_FilteredView ==
  pc = "shown" =>
    LET Matches(r) ==
          /\ selection.cities # {} => r.city \in selection.cities
          /\ selection.companies # {} => r.company \in selection.companies
          /\ selection.job_types # {} /\ "job_type" \in df.cols =>
               r.job_type \in selection.job_types
    IN /\ filtered_df.rows = SelectSeq(df.rows, Matches)
       /\ filtered_df.cols = df.cols
       /\ selection = NoSelection => filtered_df.rows = df.rows

\* all three filters chosen, and they keep some rows and drop others
C8_Witness ==
  /\ pc = "shown"
  /\ selection.cities # {}
  /\ selection.companies # {}
  /\ selection.job_types # {}
  /\ filtered_df.rows # <<>>
  /\ Len(filtered_df.rows) < Len(df.rows)

\* C9: a run of main leaves df equal to the table load_data built; from one
\* run to the next df does not change, whatever the filters chosen.
C9_TableUnchanged ==
  [][pc' = "shown" => /\ df' = cache'
                      /\ pc = "shown" => df' = df /\ cache' = cache]_vars

\* after a filter that dropped every row, the table still has its rows
C9_Witness ==
  /\ pc = "shown"
  /\ filtered_df.rows = <<>>
  /\ Len(df.rows) = 2
  /\ df = cache

\* ================================================== the charts (C10)
ChartSeries ==
  IF counts.chart = "skills" THEN all_skills(filtered_df)
  ELSE IF counts.chart = "city" THEN Column(filtered_df, "city")
  ELSE Column(filtered_df, "company")

\* the position at which a value first appears in a series
FirstAppearance(s, v) ==
  CHOOSE i \in DOMAIN s : s[i] = v /\ \A j \in 1..(i - 1) : s[j] # v

Shown(top) == {top[i].value : i \in DOMAIN top}

\* at most ten distinct values, with their exact counts, by count
\* descending, none left out that is more frequent than one shown
TopByCount(s, top) ==
  /\ Len(top) = IF Cardinality(Values(s)) < TopN
                THEN Cardinality(Values(s)) ELSE TopN
  /\ \A i \in DOMAIN top :
       top[i].value \in Values(s) /\ top[i].count = Count(s, top[i].value)
  /\ \A i, j \in DOMAIN top : i # j => top[i].value # top[j].value
  /\ \A i, j \in DOMAIN top : i < j => top[i].count >= top[j].count
  /\ \A i \in DOMAIN top : \A v \in Values(s) \ Shown(top) :
       top[i].count >= Count(s, v)

\* values with equal counts come in order of first appearance, and of two
\* equally frequent values the one shown appeared first
TiesByFirstAppearance(s, top) ==
  /\ \A i, j \in DOMAIN top :
       i < j /\ top[i].count = top[j].count =>
         FirstAppearance(s, top[i].value) < FirstAppearance(s, top[j].value)
  /\ \A i \in DOMAIN top : \A v \in Values(s) \ Shown(top) :
       top[i].count = Count(s, v) =>
         FirstAppearance(s, top[i].value) < FirstAppearance(s, v)

HasAlpha(t) == \E i \in 1..Len(t) : isalpha(t[i])

FirstAlpha(t) ==
  CHOOSE i \in 1..Len(t) : isalpha(t[i]) /\ \A j \in 1..(i - 1) : ~isalpha(t[j])

LastAlpha(t) ==
  CHOOSE i \in 1..Len(t) :
    isalpha(t[i]) /\ \A j \in (i + 1)..Len(t) : ~isalpha(t[j])

Normalized(cell) ==
  IF cell.k = "str" /\ HasAlpha(cell.v)
  THEN Str(SubSeq(strip(cell.v), FirstAlpha(strip(cell.v)),
                  LastAlpha(strip(cell.v))))
  ELSE Str(NA)

\* C5: clean_data returns, for a string with a letter, the substring of
\* s.strip() from its first to its last letter, and "N/A" for an empty
\* string, an absent input (None or a blank cell, NaN) or a string with no
\* letter.
C5_Normalize == pc = "clean_data" => norm = Normalized(arg)

\* What is left of C5 when the blank cell (NaN) is set aside: it holds.
C5_NormalizeExceptNaN ==
  pc = "clean_data" /\ arg # NaN => norm = Normalized(arg)

\* ============================================ extract_city/_country (C2)
\* C2: for a location string, with text its clean_data: when text has a
\* comma, country is the last part trimmed, city the second-to-last part
\* trimmed and the display location the other parts rejoined with ", " and
\* trimmed; without a comma city and country are "N/A" and the display
\* location is text; and "Maadi, Cairo, Egypt" gives
\* ("Maadi, Cairo", "Cairo", "Egypt").
C2_SplitLocation ==
  pc = "split_location" /\ arg.k = "str" =>
    LET text == Normalized(arg).v
        parts == split(text, ",")
        n == Len(parts)
    IN /\ loc.status = "ok"
       /\ n > 1 =>
            /\ loc.country[1] = strip(parts[n])
            /\ loc.city[1] = strip(parts[n - 1])
            /\ loc.location[1] =
                 strip(join(SubSeq(parts, 1, n - 1), CommaSpace))
       /\ n = 1 =>
            /\ loc.country[1] = NA
            /\ loc.city[1] = NA
            /\ loc.location[1] = text
       /\ arg = Str(MaadiCairoEgypt) =>
            /\ loc.location[1] = MaadiCairo
            /\ loc.city[1] = Cairo
            /\ loc.country[1] = Egypt

\* C2 without its example: the rule itself holds of the code, which joins
\* the untrimmed parts.
C2_SplitLocationRule ==
  pc = "split_location" /\ arg.k = "str" =>
    LET text == Normalized(arg).v
        parts == split(text, ",")
        n == Len(parts)
    IN /\ loc.status = "ok"
       /\ n > 1 =>
            /\ loc.country[1] = strip(parts[n])
            /\ loc.city[1] = strip(parts[n - 1])
            /\ loc.location[1] =
                 strip(join(SubSeq(parts, 1, n - 1), CommaSpace))
       /\ n = 1 =>
            /\ loc.country[1] = NA
            /\ loc.city[1] = NA
            /\ loc.location[1] = text

\* ================================================== skills (C6, C7)
NoDuplicates(xs) ==
  \A i, j \in DOMAIN xs : i # j => xs[i] # xs[j]

\* the trimmed comma-separated parts of a text that are no keyword
SkillParts(t) ==
  LET parts == split(t, ",")
      trimmed == [i \in DOMAIN parts |-> strip(parts[i])]
      keep == {i \in DOMAIN parts : trimmed[i] \notin job_type_keywords}
  IN [parts |-> trimmed, keep |-> keep]

\* C6: no element of skills_list is one of the job-type keywords.
C6_NoKeywordInSkillsList ==
  pc = "skills" =>
    \A i \in DOMAIN skl.skills_list[1] :
      skl.skills_list[1][i] \notin job_type_keywords

C6_Witness ==
  /\ pc = "skills"
  /\ arg = Str(PythonFullTimePythonSQL)
  /\ skl.skills_list[1] = <<Python, SQL>>

\* C7: the cleaned skills are the trimmed comma-separated parts that are no
\* keyword, each distinct one once, in order of first occurrence, joined
\* with ", "; "N/A" when the input is absent or nothing remains; and
\* skills_list, parsed from it, has no duplicates.
C7_NormalizeSkills ==
  pc = "skills" =>
    LET out == skl.skills[1]
        list == skl.skills_list[1]
    IN /\ out.k = "str"
       /\ NoDuplicates(list)
       /\ IF isna(arg) \/ SkillParts(arg.v).keep = {}
          THEN out.v = NA
          ELSE LET sp == SkillParts(arg.v)
                   kept == {sp.parts[i] : i \in sp.keep}
                   first(x) == CHOOSE i \in sp.keep :
                                 /\ sp.parts[i] = x
                                 /\ \A j \in sp.keep : j < i => sp.parts[j] # x
               IN /\ out.v = join(list, CommaSpace)
                  /\ {list[i] : i \in DOMAIN list} = kept
                  /\ \A i, j \in DOMAIN list :
                       i < j => first(list[i]) < first(list[j])

C7_Witness ==
  /\ pc = "skills"
  /\ arg = Str(PythonFullTimePythonSQL)
  /\ skl.skills[1] = Str(join(<<Python, SQL>>, CommaSpace))

====
